---- MODULE Spec2Model ----
(***************************************************************************)
(* The stabilization-and-commit engine of ml/src/predict/live_predict.py   *)
(* (class PredictionState), its two callers (run_webcam_mode and the       *)
(* Flask handlers of run_server_mode) and the dispatch gateway             *)
(* post_generate_audio.                                                    *)
(*                                                                         *)
(* Representation.                                                         *)
(*   - Text is a sequence of one-character strings; " " is the space.      *)
(*   - Confidences and margins are whole percents.                         *)
(*   - Time is counted in clock ticks of 0.2 s, the largest unit that      *)
(*     divides the three cooldowns: 0.6 s = 3, 0.8 s = 4, 2.0 s = 10.      *)
(*   - None is Python's None.                                              *)
(*                                                                         *)
(* Specifications.                                                         *)
(*   - Spec: update called directly on one PredictionState by threads,    *)
(*     one source line a step, as the server calls it.                     *)
(*   - RetypeSpec: Spec with the history of the appends kept.              *)
(*   - ClockSpec: Spec on a system clock that is set during the session.   *)
(*   - AppSpec: the webcam loop, one iteration a step, and the server's    *)
(*     handlers on their threads, one source line a step.                  *)
(*   - ThreadSpec: the same server sent more requests of fewer kinds, and  *)
(*     the webcam loop with the gateway call as a step of its own.         *)
(*   - StandaloneSpec: the /predict handler of                             *)
(*     ml/src/predict/prediction_server.py, which posts a recognised       *)
(*     label to the gateway itself, on the threads of its server.          *)
(***************************************************************************)
EXTENDS Integers, Sequences, FiniteSets, TLC

VARIABLES
    mode,         \* "direct", "webcam" or "server": who drives the instance
    state,        \* the PredictionState instance
    clock,        \* the value time.time() returns when read
    loop,         \* webcam loop: "running" or "crashed"; "none" otherwise
    frame,        \* what predict_from_bgr returned for the last frame
    response,     \* the last HTTP response of the server
    call,         \* arguments of the update call of the last operation
    fired,        \* commit rules whose block ran in the last operation
    dispatch,     \* the post_generate_audio call of the last operation
    post_result,  \* what update returned in the last operation
    run,          \* history: the current run of same-label update calls
    sends,        \* history: clock readings of the send rule's firings
    elapsed,      \* time that really passed since the session was created
    since,        \* history: what happened since the latest append
    timing,       \* history: elapsed time at the send rule's latest firing
    pc,           \* per caller: where the thread serving its request stands
    actor,        \* the caller whose request took the last step
    requests,     \* calls or requests still to be made in this run
    last_posted_label,  \* prediction_server.py: the global of that name
    posts         \* history: prediction_server.py's calls of post_tts

vars == <<mode, state, clock, loop, frame, response, call, fired, dispatch,
          post_result, run, sends, elapsed, since, timing, pc, actor,
          requests, last_posted_label, posts>>

\* The histories that only some specifications keep.
hist == <<since, timing>>

\* The threads' positions and the count of the requests, which only the
\* specifications with threads move.
thr == <<pc, actor, requests>>

\* The state of the standalone prediction server.
standalone == <<last_posted_label, posts>>

None == "<None>"

----------------------------------------------------------------------------
(* CONFIG block of live_predict.py *)

APPEND_CONFIDENCE_THRESHOLD == 60
STABLE_FRAMES_REQUIRED == 2
SEND_STABLE_FRAMES_REQUIRED == 1
APPEND_COOLDOWN_SECONDS == 4
WORD_SEPARATOR_LABEL == "ok"
SEND_TRIGGER_LABEL == "done"
SEPARATOR_CONFIDENCE_THRESHOLD == 35
SEPARATOR_STABLE_FRAMES_REQUIRED == 1
SEPARATOR_COOLDOWN_SECONDS == 3
SEND_COOLDOWN_SECONDS == 10
DONE_CONFIDENCE_THRESHOLD == 75
DONE_MIN_MARGIN == 12
DEFAULT_MARGIN == 100

\* The label vocabulary loaded from the model: a letter, the word separator
\* and the send trigger.
CLASSES == {"a", WORD_SEPARATOR_LABEL, SEND_TRIGGER_LABEL}

----------------------------------------------------------------------------
(* Bounds of the model *)

MaxLen == 2        \* longest text buffer explored
MaxStable == 3     \* longest identical-label streak counted
StartClock == 10   \* clock reading when the session is created
MaxClock == 20     \* last clock reading explored
MaxThreadClock == 14   \* last clock reading explored with threads
MaxRequests == 2   \* requests the server is sent in one run
MaxThreadRequests == 3   \* the same, for the frames of ThreadFrames
MaxCalls == 2      \* direct calls of update made in one run
MaxRetypeCalls == 3    \* the same, for the calls of RetypeCalls

\* Lengths of time that pass between two clock readings: each of the three
\* cooldowns.  Shorter and longer waits arise as their differences and sums.
TickSteps ==
    {SEPARATOR_COOLDOWN_SECONDS, APPEND_COOLDOWN_SECONDS, SEND_COOLDOWN_SECONDS}

\* Confidence values offered to update: below every threshold, and exactly
\* at the append and at the send threshold.
Confidences ==
    {30, APPEND_CONFIDENCE_THRESHOLD, DONE_CONFIDENCE_THRESHOLD}
\* Margins offered to update: below DONE_MIN_MARGIN and exactly at it.
Margins == {5, DONE_MIN_MARGIN}

----------------------------------------------------------------------------
(* Python helpers *)

\* Truth value of a string-or-None in an `if`.
Truthy(x) == x # None /\ x # ""

\* str.strip() on a sequence of characters: drops leading and trailing spaces.
RECURSIVE LStrip(_)
LStrip(s) == IF s # <<>> /\ Head(s) = " " THEN LStrip(Tail(s)) ELSE s

RECURSIVE RStrip(_)
RStrip(s) ==
    IF s # <<>> /\ s[Len(s)] = " " THEN RStrip(SubSeq(s, 1, Len(s) - 1)) ELSE s

Strip(s) == RStrip(LStrip(s))

\* str.endswith(" ")
EndsWithSpace(s) == s # <<>> /\ s[Len(s)] = " "

----------------------------------------------------------------------------
(* Dispatch gateway: post_generate_audio *)

\* What the outbound request can do: answer 2xx with a JSON object that has
\* an audioUrl, answer 2xx with a JSON object without one, answer with a
\* non-2xx status (urlopen raises HTTPError), or not answer at all (urlopen
\* raises for the network failure or the timeout).  status is 0 when no
\* response came; message is str() of the exception raised.
Replies ==
    { [kind |-> "ok", status |-> 200, audioUrl |-> "url", message |-> None],
      [kind |-> "ok", status |-> 200, audioUrl |-> None, message |-> None],
      [kind |-> "raise", status |-> 500, audioUrl |-> None,
       message |-> "HTTP Error 500"],
      [kind |-> "raise", status |-> 0, audioUrl |-> None,
       message |-> "timed out"],
      [kind |-> "raise", status |-> 0, audioUrl |-> None, message |-> ""] }

\* The reply drawn for a frame whose update does not call the gateway.
Unasked ==
    [kind |-> "ok", status |-> 200, audioUrl |-> "url", message |-> None]

\* Returns <<audioUrl, error>>.
post_generate_audio(reply) ==
    IF reply.kind = "ok"
    THEN <<reply.audioUrl, None>>
    ELSE <<None, reply.message>>

----------------------------------------------------------------------------
(* PredictionState *)

Fresh ==
    [ typed_text |-> <<>>,
      last_predicted_label |-> "",
      stable_count |-> 0,
      last_appended_label |-> "",
      last_append_time |-> 0,
      last_send_time |-> 0,
      last_committed_label |-> "",
      hand_left_since_commit |-> TRUE ]

\* update, hand_detected false: lines 133-137.
HandAbsent(s) ==
    [s EXCEPT !.hand_left_since_commit = TRUE,
              !.last_predicted_label = "",
              !.stable_count = 0]

\* update, streak bookkeeping: lines 139-143.
Observe(s, label) ==
    IF label = s.last_predicted_label
    THEN [s EXCEPT !.stable_count = @ + 1]
    ELSE [s EXCEPT !.last_predicted_label = label, !.stable_count = 1]

\* post_result = None: the call returned no event.
NoResult == [action |-> None]

\* No gateway call was made.
NoDispatch == [called |-> FALSE]

\* SendGuard with the confidence test lost.
SendGuard_NoConfidence(s, label, confidence, margin, now) ==
    /\ label = SEND_TRIGGER_LABEL
    /\ margin >= DONE_MIN_MARGIN
    /\ s.stable_count >= SEND_STABLE_FRAMES_REQUIRED
    /\ (now - s.last_send_time) >= SEND_COOLDOWN_SECONDS

\* Condition of the send block: lines 147-153.
SendGuard(s, label, confidence, margin, now) ==
    /\ label = SEND_TRIGGER_LABEL
    /\ confidence >= DONE_CONFIDENCE_THRESHOLD
    /\ margin >= DONE_MIN_MARGIN
    /\ s.stable_count >= SEND_STABLE_FRAMES_REQUIRED
    /\ (now - s.last_send_time) >= SEND_COOLDOWN_SECONDS

\* Body of the send block: lines 154-179.  Yields the state, the event and
\* the gateway call made (NoDispatch when the buffer was empty).
SendBlock(s, label, now, reply) ==
    LET text_to_send == Strip(s.typed_text)
        res == post_generate_audio(reply)
        audio_url == res[1]
        post_err == res[2]
        marked == [s EXCEPT !.last_send_time = now,
                            !.last_committed_label = label,
                            !.hand_left_since_commit = FALSE]
    IN  IF text_to_send # <<>>
        THEN IF Truthy(post_err)
             THEN [ state |-> marked,
                    post_result |-> [action |-> "send", success |-> FALSE,
                                     error |-> post_err, audioUrl |-> None,
                                     text |-> text_to_send],
                    dispatch |-> [called |-> TRUE, text |-> text_to_send,
                                  reply |-> reply] ]
             ELSE [ state |-> [marked EXCEPT !.typed_text = <<>>],
                    post_result |-> [action |-> "send", success |-> TRUE,
                                     error |-> None, audioUrl |-> audio_url,
                                     text |-> text_to_send],
                    dispatch |-> [called |-> TRUE, text |-> text_to_send,
                                  reply |-> reply] ]
        ELSE [ state |-> marked, post_result |-> NoResult,
               dispatch |-> NoDispatch ]

\* Condition of the separator block: lines 181-188.
SeparatorGuard(s, label, confidence, now) ==
    /\ label = WORD_SEPARATOR_LABEL
    /\ confidence >= SEPARATOR_CONFIDENCE_THRESHOLD
    /\ s.stable_count >= SEPARATOR_STABLE_FRAMES_REQUIRED
    /\ s.typed_text # <<>>
    /\ ~EndsWithSpace(s.typed_text)
    /\ (now - s.last_append_time) >= SEPARATOR_COOLDOWN_SECONDS

\* Body of the separator block: lines 189-195.
SeparatorBlock(s, label, now) ==
    LET t == [s EXCEPT !.typed_text = Append(@, " "),
                       !.last_appended_label = label,
                       !.last_append_time = now,
                       !.last_committed_label = label,
                       !.hand_left_since_commit = FALSE]
    IN  [ state |-> t,
          post_result |-> [action |-> "space", text |-> t.typed_text] ]

\* Condition of the append block: lines 197-207.
AppendGuard(s, label, confidence, now) ==
    /\ label # SEND_TRIGGER_LABEL
    /\ label # WORD_SEPARATOR_LABEL
    /\ confidence >= APPEND_CONFIDENCE_THRESHOLD
    /\ s.stable_count >= STABLE_FRAMES_REQUIRED
    /\ (s.hand_left_since_commit \/ label # s.last_committed_label)
    /\ \/ label # s.last_appended_label
       \/ (now - s.last_append_time) >= APPEND_COOLDOWN_SECONDS

\* Body of the append block: lines 208-213.  Vocabulary letters are one
\* character long.
AppendBlock(s, label, now) ==
    [s EXCEPT !.typed_text = Append(@, label),
              !.last_appended_label = label,
              !.last_append_time = now,
              !.last_committed_label = label,
              !.hand_left_since_commit = FALSE]

\* PredictionState.update(label, confidence, hand_detected, margin), with
\* `now` the clock reading of line 145 and `reply` what the gateway does if
\* it is called.  The three blocks run one after the other, each on the
\* state the previous one left.
update(s, label, confidence, hand_detected, margin, now, reply) ==
    IF ~hand_detected
    THEN [ state |-> HandAbsent(s), post_result |-> NoResult,
           fired |-> {}, dispatch |-> NoDispatch ]
    ELSE
    LET s0 == Observe(s, label)
        send == SendGuard(s0, label, confidence, margin, now)
        r1 == IF send THEN SendBlock(s0, label, now, reply)
              ELSE [state |-> s0, post_result |-> NoResult,
                    dispatch |-> NoDispatch]
        s1 == r1.state
        space == SeparatorGuard(s1, label, confidence, now)
        r2 == IF space THEN SeparatorBlock(s1, label, now)
              ELSE [state |-> s1, post_result |-> r1.post_result]
        s2 == r2.state
        append == AppendGuard(s2, label, confidence, now)
        s3 == IF append THEN AppendBlock(s2, label, now) ELSE s2
    IN  [ state |-> s3,
          post_result |-> r2.post_result,
          fired |-> (IF send THEN {"send"} ELSE {})
                    \cup (IF space THEN {"space"} ELSE {})
                    \cup (IF append THEN {"append"} ELSE {}),
          dispatch |-> r1.dispatch ]

\* update from its entry to the call of the gateway, lines 139-156, for a
\* frame with a hand: the state it has left by then, the text it is about to
\* send, and whether it makes the call at all.
update_begin(s, label, confidence, margin, now) ==
    LET s0 == Observe(s, label)
    IN  [ state |-> s0,
          text |-> Strip(s0.typed_text),
          calls |-> /\ SendGuard(s0, label, confidence, margin, now)
                    /\ Strip(s0.typed_text) # <<>> ]

\* update from the gateway's return to its own, lines 157-215, on the fields
\* as they are by then; text_to_send and now are the locals of lines 154
\* and 145.
update_resume(s, label, confidence, now, text_to_send, reply) ==
    LET res == post_generate_audio(reply)
        audio_url == res[1]
        post_err == res[2]
        kept == IF Truthy(post_err) THEN s ELSE [s EXCEPT !.typed_text = <<>>]
        s1 == [kept EXCEPT !.last_send_time = now,
                           !.last_committed_label = label,
                           !.hand_left_since_commit = FALSE]
        event == IF Truthy(post_err)
                 THEN [action |-> "send", success |-> FALSE,
                       error |-> post_err, audioUrl |-> None,
                       text |-> text_to_send]
                 ELSE [action |-> "send", success |-> TRUE,
                       error |-> None, audioUrl |-> audio_url,
                       text |-> text_to_send]
        space == SeparatorGuard(s1, label, confidence, now)
        r2 == IF space THEN SeparatorBlock(s1, label, now)
              ELSE [state |-> s1, post_result |-> event]
        s2 == r2.state
        append == AppendGuard(s2, label, confidence, now)
        s3 == IF append THEN AppendBlock(s2, label, now) ELSE s2
    IN  [ state |-> s3,
          post_result |-> r2.post_result,
          fired |-> {"send"}
                    \cup (IF space THEN {"space"} ELSE {})
                    \cup (IF append THEN {"append"} ELSE {}),
          dispatch |-> [called |-> TRUE, text |-> text_to_send,
                        reply |-> reply] ]

----------------------------------------------------------------------------
(* History kept beside the program, for stating properties *)

\* label, frames: the label and length of the current run of consecutive
\* hand-present update calls that carry one label.  appends: how often the
\* append block ran during that run.  first: every update call so far was
\* hand-present, carried this one label and had a confidence of at least
\* APPEND_CONFIDENCE_THRESHOLD.
InitRun == [label |-> "", frames |-> 0, appends |-> 0, first |-> TRUE]

NextRun(rn, label, confidence, hand_detected, f) ==
    IF ~hand_detected
    THEN [label |-> "", frames |-> 0, appends |-> 0, first |-> FALSE]
    ELSE LET same == rn.frames > 0 /\ rn.label = label
         IN  [ label |-> label,
               frames |-> IF same THEN rn.frames + 1 ELSE 1,
               appends |-> (IF same THEN rn.appends ELSE 0)
                           + (IF "append" \in f THEN 1 ELSE 0),
               first |-> /\ rn.first
                         /\ (same \/ rn.frames = 0)
                         /\ confidence >= APPEND_CONFIDENCE_THRESHOLD ]

\* What a call of update that begins means for the run: a call without a
\* hand or with another label ends it, whenever the call returns, and a
\* confidence below APPEND_CONFIDENCE_THRESHOLD ends `first`.
BeginRun(rn, label, confidence, hand_detected) ==
    IF ~hand_detected \/ (rn.frames > 0 /\ rn.label # label)
    THEN [label |-> "", frames |-> 0, appends |-> 0, first |-> FALSE]
    ELSE [rn EXCEPT !.first = @ /\ confidence >= APPEND_CONFIDENCE_THRESHOLD]

\* at: clock reading of the latest firing of the send rule, gap: the time
\* between the clock readings of the latest two firings; -1 while there is
\* none.
InitSends == [at |-> -1, gap |-> -1]

NextSends(sd, f, now) ==
    IF "send" \in f
    THEN [at |-> now,
          gap |-> IF sd.at = -1 THEN -1
                  ELSE IF now >= sd.at THEN now - sd.at ELSE sd.at - now]
    ELSE sd

\* label: the letter the append block appended last ("" while there is
\* none).  absent, other: since then update was called without a hand, or
\* another commit (send, separator) fired.  retyped: how that latest append
\* came about: "no" if it appended another letter than the append before
\* it, else what had happened in between: "clean" (neither a hand-absent
\* call nor another commit), "absent", "other" or "both".  overlap: two
\* calls of update have been in progress at the same time.
InitSince ==
    [label |-> "", absent |-> FALSE, other |-> FALSE, retyped |-> "no",
     overlap |-> FALSE]

NextSince(sn, label, hand_detected, f) ==
    IF ~hand_detected
    THEN [sn EXCEPT !.absent = TRUE]
    ELSE IF "append" \in f
    THEN [ label |-> label, absent |-> FALSE, other |-> FALSE,
           overlap |-> sn.overlap,
           retyped |-> IF label # sn.label THEN "no"
                       ELSE IF sn.absent /\ sn.other THEN "both"
                       ELSE IF sn.absent THEN "absent"
                       ELSE IF sn.other THEN "other"
                       ELSE "clean" ]
    ELSE IF f # {}
    THEN [sn EXCEPT !.other = TRUE]
    ELSE sn

\* sent: the elapsed time at the latest firing of the send rule; -1 while
\* there is none.
InitTiming == [sent |-> -1]

NextTiming(tm, f, real) ==
    IF "send" \in f THEN [sent |-> real] ELSE tm

----------------------------------------------------------------------------
(* Shared steps *)

\* The callers of the program: the camera of the webcam loop, or the clients
\* of the server, each request served by a thread of its own.
Callers == {"c1", "c2"}
Camera == "c1"

\* A thread that is not inside a handler or a loop iteration.
Idle == [at |-> "idle"]

NoCall == [label |-> None, confidence |-> 0, hand_detected |-> FALSE,
           margin |-> 0]
NoFrame == <<>>
NoResponse == [route |-> None]

InitCommon ==
    /\ clock = StartClock
    /\ frame = NoFrame
    /\ response = NoResponse
    /\ call = NoCall
    /\ fired = {}
    /\ dispatch = NoDispatch
    /\ post_result = NoResult
    /\ elapsed = 0
    /\ pc = [c \in Callers |-> Idle]
    /\ actor = None
    /\ last_posted_label = ""
    /\ posts = <<>>

\* The histories of a session that begins.
NewHistory ==
    /\ run = InitRun
    /\ sends = InitSends
    /\ since = InitSince
    /\ timing = InitTiming

\* Time passes between two operations.
Tick ==
    \E d \in TickSteps :
        /\ clock + d <= MaxClock
        /\ elapsed + d <= MaxClock
        /\ clock' = clock + d
        /\ elapsed' = elapsed + d
        /\ UNCHANGED <<mode, state, loop, frame, response, call, fired,
                       dispatch, post_result, run, sends, hist, thr, standalone>>

\* Time passes, within the horizon explored with threads.
ThreadTick == Tick /\ clock' <= MaxThreadClock

\* One call of update on the instance by the webcam loop, whose one
\* thread nothing interrupts, and its record in the history.
Apply(label, confidence, hand_detected, margin, reply) ==
    LET r == update(state, label, confidence, hand_detected, margin, clock, reply)
    IN  /\ r.state.stable_count <= MaxStable
        /\ Len(r.state.typed_text) <= MaxLen
        /\ state' = r.state
        /\ call' = [label |-> label, confidence |-> confidence,
                    hand_detected |-> hand_detected, margin |-> margin]
        /\ fired' = r.fired
        /\ dispatch' = r.dispatch
        /\ post_result' = r.post_result
        /\ run' = NextRun(run, label, confidence, hand_detected, r.fired)
        /\ sends' = NextSends(sends, r.fired, clock)

\* NoUpdate that counts the failed operation as a frame without a hand.
NoUpdate_CountsAsNoHand ==
    Apply("", 0, FALSE, DEFAULT_MARGIN, Unasked)

\* An operation that ends without calling update.
NoUpdate ==
    /\ call' = NoCall
    /\ fired' = {}
    /\ dispatch' = NoDispatch
    /\ post_result' = NoResult
    /\ UNCHANGED <<state, run, sends>>

\* The gateway's behaviours to consider for a call of update: all of them
\* if the call reaches post_generate_audio, else one.
RepliesFor(s, label, confidence, hand_detected, margin, now) ==
    IF update(s, label, confidence, hand_detected, margin, now, Unasked).dispatch.called
    THEN Replies
    ELSE {Unasked}

----------------------------------------------------------------------------
(* Classification: predict_from_bgr *)

\* Top-two outputs of the softmax layer in percent, largest first: their
\* margins are 20, 5, 5 and 55.  The outputs sum to at most 100, so a top
\* confidence of DONE_CONFIDENCE_THRESHOLD comes with a margin of at least 50.
TopTwo == {<<30, 10>>, <<30, 25>>, <<45, 40>>, <<75, 20>>}

\* What the hand detector and the classifier make of a decoded image: no
\* hand, a hand whose landmark list has the wrong length, or a hand with the
\* two best labels.
Detections ==
    { [hands |-> 0], [hands |-> 1, landmarks_ok |-> FALSE] }
    \cup { [hands |-> 1, landmarks_ok |-> TRUE,
            label |-> p[1], confidence |-> c[1],
            second_label |-> p[2], second_confidence |-> c[2]] :
           p \in {q \in CLASSES \X CLASSES : q[1] # q[2]}, c \in TopTwo }

\* The tuple predict_from_bgr returns: four values without a usable hand,
\* seven with one.  The landmark list is <<"lm">> or empty.
predict_from_bgr(d) ==
    IF d.hands = 0
    THEN <<None, 0, 0, <<>>>>
    ELSE IF ~d.landmarks_ok
    THEN <<None, 0, d.hands, <<"lm">>>>
    ELSE <<d.label, d.confidence, d.hands, <<"lm">>, d.second_label,
           d.second_confidence, d.confidence - d.second_confidence>>

----------------------------------------------------------------------------
(* Ambiguity resolution, as each caller writes it *)

\* ResolveServer that keeps the top confidence.
ResolveServer_KeepConfidence(hand_detected, label, confidence, second_label, second_confidence, margin) ==
    IF /\ hand_detected
       /\ label = SEND_TRIGGER_LABEL
       /\ second_label = WORD_SEPARATOR_LABEL
       /\ margin < DONE_MIN_MARGIN
    THEN <<WORD_SEPARATOR_LABEL, confidence, DEFAULT_MARGIN>>
    ELSE <<label, confidence, margin>>

\* /predict handler, lines 420-428: yields <<label, confidence, margin>>.
ResolveServer(hand_detected, label, confidence, second_label, second_confidence, margin) ==
    IF /\ hand_detected
       /\ label = SEND_TRIGGER_LABEL
       /\ second_label = WORD_SEPARATOR_LABEL
       /\ margin < DONE_MIN_MARGIN
    THEN <<WORD_SEPARATOR_LABEL, second_confidence, DEFAULT_MARGIN>>
    ELSE <<label, confidence, margin>>

\* ResolveWebcam without the test of the runner-up label.
ResolveWebcam_AnyRunnerUp(label, confidence, second_label, second_confidence, margin) ==
    IF /\ label = SEND_TRIGGER_LABEL
       /\ margin < DONE_MIN_MARGIN
    THEN <<WORD_SEPARATOR_LABEL, second_confidence, DEFAULT_MARGIN>>
    ELSE <<label, confidence, margin>>

\* Webcam loop, lines 322-329: yields <<label, confidence, margin>>.
ResolveWebcam(label, confidence, second_label, second_confidence, margin) ==
    IF /\ label = SEND_TRIGGER_LABEL
       /\ second_label = WORD_SEPARATOR_LABEL
       /\ margin < DONE_MIN_MARGIN
    THEN <<WORD_SEPARATOR_LABEL, second_confidence, DEFAULT_MARGIN>>
    ELSE <<label, confidence, margin>>

----------------------------------------------------------------------------
(* run_server_mode *)

\* app.run(host, port, debug=False), line 461: Flask's server handles every
\* request on a thread of its own, and the handlers share the one
\* PredictionState of line 390 without a lock.  A handler is therefore a
\* sequence of steps, one for every source line that reads or writes a field
\* of the shared instance or waits for the gateway, and the steps of two
\* handlers interleave.  A thread's `at` is the number of the line it
\* executes next; the lines that touch only the thread's own locals, and
\* the print calls, belong to the step before them.

\* JSON bodies a client posts to /predict: one that is not an object
\* (a non-empty list or string, a number other than 0, true), an object
\* without an image, with an image that does not decode, or with an image
\* showing one of the detections.
Requests ==
    { [kind |-> "not_object"], [kind |-> "no_image"], [kind |-> "undecodable"] }
    \cup { [kind |-> "image", detection |-> d] : d \in Detections }

\* update with the arguments of a letter held up clearly, at the clock
\* reading of the start, as it runs when no other handler is active.
After(s, label) ==
    update(s, label, DONE_CONFIDENCE_THRESHOLD, TRUE, DEFAULT_MARGIN,
           StartClock, Unasked).state

\* The session after two frames of the letter "a": the buffer is "a".
Typed == After(After(Fresh, "a"), "a")

\* The session after a send frame that followed them: the buffer was sent.
Sent == After(Typed, SEND_TRIGGER_LABEL)

\* The session after one frame of the letter "a": the next one appends it.
Seen == After(Fresh, "a")

\* Session states in which the requests explored find the server: new, or
\* after one of the streams above.
ServerStarts == {Fresh, Seen, Typed, Sent}

\* The locals of a /predict handler that has resolved its frame t to
\* e = <<label, confidence, margin>> and is about to call update, lines
\* 409-438.
Handler(t, e) ==
    [at |-> "139", frame |-> t, label |-> e[1], confidence |-> e[2],
     margin |-> e[3], now |-> 0, text_to_send |-> <<>>,
     post_result |-> NoResult, fired |-> {}, dispatch |-> NoDispatch]

\* The locals of a /predict handler that found no hand in its frame and is
\* about to call update("", 0.0, False), line 443; text_buffer is what line
\* 434 read.
HandlerNoHand(t, e, text) ==
    [at |-> "134", frame |-> t, label |-> e[1], confidence |-> e[2],
     margin |-> e[3], text_buffer |-> text]

\* Lines of update at which a thread stands before the return.
UpdateLines ==
    {"134", "135", "136", "139", "140", "142", "143", "151", "152", "154",
     "156", "173", "177", "178", "179", "184", "185", "186", "187", "189",
     "190", "191", "192", "193", "195", "201", "202", "204", "205", "208",
     "209", "210", "211", "212"}

\* Lines of clear_buffer at which a thread stands.
ClearLines == {"450", "451", "452", "453", "454", "455", "456"}

\* Where update goes on from line 197: the tests of lines 198-200 read the
\* arguments only.
AppendEntry(p) ==
    IF /\ p.label # SEND_TRIGGER_LABEL
       /\ p.label # WORD_SEPARATOR_LABEL
       /\ p.confidence >= APPEND_CONFIDENCE_THRESHOLD
    THEN "201"
    ELSE "215"

\* SeparatorEntry with the label test lost.
SeparatorEntry_AnyLabel(p) ==
    IF p.confidence >= SEPARATOR_CONFIDENCE_THRESHOLD
    THEN "184"
    ELSE AppendEntry(p)

\* Where update goes on from line 181: the tests of lines 182-183.
SeparatorEntry(p) ==
    IF /\ p.label = WORD_SEPARATOR_LABEL
       /\ p.confidence >= SEPARATOR_CONFIDENCE_THRESHOLD
    THEN "184"
    ELSE AppendEntry(p)

\* Where update goes on from line 147: the tests of lines 148-150.
SendEntry(p) ==
    IF /\ p.label = SEND_TRIGGER_LABEL
       /\ p.confidence >= DONE_CONFIDENCE_THRESHOLD
       /\ p.margin >= DONE_MIN_MARGIN
    THEN "151"
    ELSE SeparatorEntry(p)

\* hand_absent_line that also forgets the last commit.
hand_absent_line_ForgetsCommit(at, s) ==
    CASE at = "134" -> [s EXCEPT !.hand_left_since_commit = TRUE,
                                 !.last_committed_label = ""]
      [] at = "135" -> [s EXCEPT !.last_predicted_label = ""]
      [] at = "136" -> [s EXCEPT !.stable_count = 0]

\* One assignment of update's branch for a frame without a hand, lines
\* 134-136, on the instance s.
hand_absent_line(at, s) ==
    CASE at = "134" -> [s EXCEPT !.hand_left_since_commit = TRUE]
      [] at = "135" -> [s EXCEPT !.last_predicted_label = ""]
      [] at = "136" -> [s EXCEPT !.stable_count = 0]

\* The line that follows a line of that branch; line 137 returns.
NextHandAbsentLine(at) ==
    CASE at = "134" -> "135"
      [] at = "135" -> "136"
      [] at = "136" -> "137"

\* CommitAllowed that lets the elapsed cooldown stand in for the hand
\* leaving.
CommitAllowed_CooldownRetypes(p, s) ==
    \/ s.hand_left_since_commit
    \/ p.label # s.last_committed_label
    \/ (p.now - s.last_append_time) >= APPEND_COOLDOWN_SECONDS

\* The test of line 202: the hand has left the frame since the last commit,
\* or the label is not the one committed last.
CommitAllowed(p, s) ==
    s.hand_left_since_commit \/ p.label # s.last_committed_label

\* One line of update, lines 134-212, run by a thread with locals p on the
\* instance s: the locals and the instance after it.  t is the clock
\* reading and reply what the gateway does, for the lines that need them.
\* A thread at "215" or "137" is about to return.
update_line(p, s, t, reply) ==
    CASE p.at \in {"134", "135", "136"} ->
           [p |-> [p EXCEPT !.at = NextHandAbsentLine(p.at)],
            s |-> hand_absent_line(p.at, s)]
      [] p.at = "139" ->
           [p |-> [p EXCEPT !.at = IF p.label = s.last_predicted_label
                                   THEN "140" ELSE "142"],
            s |-> s]
      [] p.at = "140" ->
           \* lines 140-150: the increment, time.time() and the tests of
           \* the arguments
           [p |-> [p EXCEPT !.now = t, !.at = SendEntry(p)],
            s |-> [s EXCEPT !.stable_count = @ + 1]]
      [] p.at = "142" ->
           [p |-> [p EXCEPT !.at = "143"],
            s |-> [s EXCEPT !.last_predicted_label = p.label]]
      [] p.at = "143" ->
           \* lines 143-150
           [p |-> [p EXCEPT !.now = t, !.at = SendEntry(p)],
            s |-> [s EXCEPT !.stable_count = 1]]
      [] p.at = "151" ->
           [p |-> [p EXCEPT !.at =
                     IF s.stable_count >= SEND_STABLE_FRAMES_REQUIRED
                     THEN "152" ELSE SeparatorEntry(p)],
            s |-> s]
      [] p.at = "152" ->
           [p |-> [p EXCEPT !.at =
                     IF (p.now - s.last_send_time) >= SEND_COOLDOWN_SECONDS
                     THEN "154" ELSE SeparatorEntry(p)],
            s |-> s]
      [] p.at = "154" ->
           \* lines 154-155, and the print of line 175
           LET text_to_send == Strip(s.typed_text)
           IN  [p |-> [p EXCEPT !.text_to_send = text_to_send,
                                !.fired = @ \cup {"send"},
                                !.at = IF text_to_send # <<>>
                                       THEN "156" ELSE "177"],
                s |-> s]
      [] p.at = "156" ->
           \* lines 156-172: the gateway answers
           LET res == post_generate_audio(reply)
               audio_url == res[1]
               post_err == res[2]
               called == [called |-> TRUE, text |-> p.text_to_send,
                          reply |-> reply]
           IN  IF Truthy(post_err)
               THEN [p |-> [p EXCEPT !.dispatch = called,
                                     !.post_result =
                                        [action |-> "send", success |-> FALSE,
                                         error |-> post_err, audioUrl |-> None,
                                         text |-> p.text_to_send],
                                     !.at = "177"],
                     s |-> s]
               ELSE [p |-> [p EXCEPT !.dispatch = called,
                                     !.post_result =
                                        [action |-> "send", success |-> TRUE,
                                         error |-> None, audioUrl |-> audio_url,
                                         text |-> p.text_to_send],
                                     !.at = "173"],
                     s |-> s]
      [] p.at = "173" ->
           [p |-> [p EXCEPT !.at = "177"],
            s |-> [s EXCEPT !.typed_text = <<>>]]
      [] p.at = "177" ->
           [p |-> [p EXCEPT !.at = "178"],
            s |-> [s EXCEPT !.last_send_time = p.now]]
      [] p.at = "178" ->
           [p |-> [p EXCEPT !.at = "179"],
            s |-> [s EXCEPT !.last_committed_label = p.label]]
      [] p.at = "179" ->
           \* lines 179-183
           [p |-> [p EXCEPT !.at = SeparatorEntry(p)],
            s |-> [s EXCEPT !.hand_left_since_commit = FALSE]]
      [] p.at = "184" ->
           [p |-> [p EXCEPT !.at =
                     IF s.stable_count >= SEPARATOR_STABLE_FRAMES_REQUIRED
                     THEN "185" ELSE AppendEntry(p)],
            s |-> s]
      [] p.at = "185" ->
           [p |-> [p EXCEPT !.at = IF s.typed_text # <<>>
                                   THEN "186" ELSE AppendEntry(p)],
            s |-> s]
      [] p.at = "186" ->
           [p |-> [p EXCEPT !.at = IF ~EndsWithSpace(s.typed_text)
                                   THEN "187" ELSE AppendEntry(p)],
            s |-> s]
      [] p.at = "187" ->
           [p |-> [p EXCEPT !.at =
                     IF (p.now - s.last_append_time) >= SEPARATOR_COOLDOWN_SECONDS
                     THEN "189" ELSE AppendEntry(p)],
            s |-> s]
      [] p.at = "189" ->
           [p |-> [p EXCEPT !.fired = @ \cup {"space"}, !.at = "190"],
            s |-> [s EXCEPT !.typed_text = Append(@, " ")]]
      [] p.at = "190" ->
           [p |-> [p EXCEPT !.at = "191"],
            s |-> [s EXCEPT !.last_appended_label = p.label]]
      [] p.at = "191" ->
           [p |-> [p EXCEPT !.at = "192"],
            s |-> [s EXCEPT !.last_append_time = p.now]]
      [] p.at = "192" ->
           [p |-> [p EXCEPT !.at = "193"],
            s |-> [s EXCEPT !.last_committed_label = p.label]]
      [] p.at = "193" ->
           \* lines 193-194
           [p |-> [p EXCEPT !.at = "195"],
            s |-> [s EXCEPT !.hand_left_since_commit = FALSE]]
      [] p.at = "195" ->
           \* lines 195-200
           [p |-> [p EXCEPT !.post_result =
                               [action |-> "space", text |-> s.typed_text],
                            !.at = AppendEntry(p)],
            s |-> s]
      [] p.at = "201" ->
           [p |-> [p EXCEPT !.at = IF s.stable_count >= STABLE_FRAMES_REQUIRED
                                   THEN "202" ELSE "215"],
            s |-> s]
      [] p.at = "202" ->
           [p |-> [p EXCEPT !.at = IF CommitAllowed(p, s)
                                   THEN "204" ELSE "215"],
            s |-> s]
      [] p.at = "204" ->
           [p |-> [p EXCEPT !.at = IF p.label # s.last_appended_label
                                   THEN "208" ELSE "205"],
            s |-> s]
      [] p.at = "205" ->
           [p |-> [p EXCEPT !.at =
                     IF (p.now - s.last_append_time) >= APPEND_COOLDOWN_SECONDS
                     THEN "208" ELSE "215"],
            s |-> s]
      [] p.at = "208" ->
           [p |-> [p EXCEPT !.fired = @ \cup {"append"}, !.at = "209"],
            s |-> [s EXCEPT !.typed_text = Append(@, p.label)]]
      [] p.at = "209" ->
           [p |-> [p EXCEPT !.at = "210"],
            s |-> [s EXCEPT !.last_appended_label = p.label]]
      [] p.at = "210" ->
           [p |-> [p EXCEPT !.at = "211"],
            s |-> [s EXCEPT !.last_append_time = p.now]]
      [] p.at = "211" ->
           [p |-> [p EXCEPT !.at = "212"],
            s |-> [s EXCEPT !.last_committed_label = p.label]]
      [] p.at = "212" ->
           \* lines 212-215
           [p |-> [p EXCEPT !.at = "215"],
            s |-> [s EXCEPT !.hand_left_since_commit = FALSE]]

\* POST /predict from the arrival of the request to the call of update,
\* lines 396-438, or to the response if update is not reached.
PredictBegin(c) ==
    \E req \in Requests :
        /\ mode = "server"
        /\ pc[c].at = "idle"
        /\ requests > 0
        /\ requests' = requests - 1
        /\ actor' = c
        /\ UNCHANGED <<mode, clock, loop, elapsed, hist, standalone>>
        /\ IF req.kind = "not_object"
           THEN \* line 398 keeps the body and payload.get, line 399,
                \* raises AttributeError
                /\ response' = [route |-> "/predict", status |-> 500]
                /\ frame' = NoFrame
                /\ pc' = pc
                /\ NoUpdate
           ELSE IF req.kind = "no_image"
           THEN /\ response' = [route |-> "/predict", status |-> 400,
                                error |-> "No image provided"]
                /\ frame' = NoFrame
                /\ pc' = pc
                /\ NoUpdate
           ELSE IF req.kind = "undecodable"
           THEN /\ response' = [route |-> "/predict", status |-> 400,
                                error |-> "Failed to decode image"]
                /\ frame' = NoFrame
                /\ pc' = pc
                /\ NoUpdate
           ELSE
           LET t == predict_from_bgr(req.detection)
           IN  IF Len(t) # 7
               THEN \* the seven-name unpacking raises ValueError
                    /\ response' = [route |-> "/predict", status |-> 500]
                    /\ frame' = t
                    /\ pc' = pc
                    /\ NoUpdate
               ELSE
               LET hand_detected == t[3] > 0
                   e == ResolveServer(hand_detected, t[1], t[2], t[5],
                                      t[6], t[7])
               IN  /\ pc' = [pc EXCEPT ![c] =
                               IF hand_detected /\ e[1] # None
                               THEN Handler(t, e)
                               ELSE HandlerNoHand(t, e, state.typed_text)]
                   /\ UNCHANGED <<state, frame, response, call, fired,
                                  dispatch, post_result, run, sends>>

\* A thread inside update runs one of its lines.
Line(c) ==
    /\ pc[c].at \in UpdateLines
    /\ \E reply \in (IF pc[c].at = "156" THEN Replies ELSE {Unasked}) :
         LET r == update_line(pc[c], state, clock, reply)
         IN  /\ r.s.stable_count <= MaxStable
             /\ Len(r.s.typed_text) <= MaxLen
             /\ state' = r.s
             /\ pc' = [pc EXCEPT ![c] = r.p]
    /\ actor' = c
    /\ UNCHANGED <<mode, clock, loop, frame, response, call, fired, dispatch,
                   post_result, run, sends, elapsed, hist, requests, standalone>>

\* The thread of a /predict handler runs one line of update.
PredictLine(c) == mode = "server" /\ Line(c)

\* update returns and the handler builds its response, lines 439-445,
\* reading typed_text once more if a hand was present.
PredictEnd(c) ==
    /\ mode = "server"
    /\ pc[c].at \in {"215", "137"}
    /\ actor' = c
    /\ pc' = [pc EXCEPT ![c] = Idle]
    /\ LET p == pc[c]
       IN  /\ frame' = p.frame
           /\ IF p.at = "215"
              THEN /\ call' = [label |-> p.label, confidence |-> p.confidence,
                               hand_detected |-> TRUE, margin |-> p.margin]
                   /\ fired' = p.fired
                   /\ dispatch' = p.dispatch
                   /\ post_result' = p.post_result
                   /\ response' = [route |-> "/predict", status |-> 200,
                                   label |-> p.label,
                                   confidence |-> p.confidence,
                                   hands_detected |-> p.frame[3],
                                   text_buffer |-> state.typed_text,
                                   post_result |-> p.post_result]
              ELSE /\ call' = [label |-> "", confidence |-> 0,
                               hand_detected |-> FALSE,
                               margin |-> DEFAULT_MARGIN]
                   /\ fired' = {}
                   /\ dispatch' = NoDispatch
                   /\ post_result' = NoResult
                   /\ response' = [route |-> "/predict", status |-> 200,
                                   label |-> IF p.label = None THEN ""
                                             ELSE p.label,
                                   confidence |-> p.confidence,
                                   hands_detected |-> p.frame[3],
                                   text_buffer |-> p.text_buffer,
                                   post_result |-> NoResult]
    /\ UNCHANGED <<mode, state, clock, loop, run, sends, elapsed, hist,
                   requests, standalone>>

\* One assignment of clear_buffer, lines 449-455, on the instance s.
clear_line(at, s) ==
    CASE at = "449" -> [s EXCEPT !.typed_text = <<>>]
      [] at = "450" -> [s EXCEPT !.last_predicted_label = ""]
      [] at = "451" -> [s EXCEPT !.stable_count = 0]
      [] at = "452" -> [s EXCEPT !.last_appended_label = ""]
      [] at = "453" -> [s EXCEPT !.last_append_time = 0]
      [] at = "454" -> [s EXCEPT !.last_committed_label = ""]
      [] at = "455" -> [s EXCEPT !.hand_left_since_commit = TRUE]

\* The line that follows a line of clear_buffer.
NextClearLine(at) ==
    CASE at = "449" -> "450"
      [] at = "450" -> "451"
      [] at = "451" -> "452"
      [] at = "452" -> "453"
      [] at = "453" -> "454"
      [] at = "454" -> "455"
      [] at = "455" -> "456"

\* POST /clear-buffer: the thread of the handler runs one of its seven
\* assignments, the first of them as the request arrives.
ClearLine(c) ==
    /\ mode = "server"
    /\ pc[c].at \in {"idle"} \cup (ClearLines \ {"456"})
    /\ pc[c].at = "idle" => requests > 0
    /\ requests' = IF pc[c].at = "idle" THEN requests - 1 ELSE requests
    /\ actor' = c
    /\ LET at == IF pc[c].at = "idle" THEN "449" ELSE pc[c].at
       IN  /\ state' = clear_line(at, state)
           /\ pc' = [pc EXCEPT ![c] = [at |-> NextClearLine(at)]]
    /\ UNCHANGED <<mode, clock, loop, frame, response, call, fired, dispatch,
                   post_result, run, sends, elapsed, hist, standalone>>

\* POST /clear-buffer, line 456: the handler reads typed_text and answers.
ClearEnd(c) ==
    /\ mode = "server"
    /\ pc[c].at = "456"
    /\ actor' = c
    /\ pc' = [pc EXCEPT ![c] = Idle]
    /\ response' = [route |-> "/clear-buffer", status |-> 200,
                    success |-> TRUE, text_buffer |-> state.typed_text]
    /\ frame' = NoFrame
    /\ call' = NoCall
    /\ fired' = {}
    /\ dispatch' = NoDispatch
    /\ post_result' = NoResult
    /\ UNCHANGED <<mode, state, clock, loop, run, sends, elapsed, hist,
                   requests, standalone>>

----------------------------------------------------------------------------
(* The engine called directly *)

\* PredictionState has no lock, and run_server_mode calls update on its one
\* instance from the thread of every request (lines 390, 438, 443).  Here
\* the threads of Callers call update directly, with every kind of
\* argument it accepts, and run it line by line as the handlers do.

\* Arguments of a call of update: a hand with any label of the vocabulary,
\* or no hand, as the callers pass it.
Calls ==
    { [label |-> l, confidence |-> k, hand_detected |-> TRUE, margin |-> m] :
        l \in CLASSES, k \in Confidences, m \in Margins }
    \cup { [label |-> "", confidence |-> 0, hand_detected |-> FALSE,
            margin |-> DEFAULT_MARGIN] }

\* The locals of a thread that has entered update with the arguments a,
\* lines 130-133.
Entered(a) ==
    [at |-> IF a.hand_detected THEN "139" ELSE "134",
     label |-> a.label, confidence |-> a.confidence,
     hand_detected |-> a.hand_detected, margin |-> a.margin, now |-> 0,
     text_to_send |-> <<>>, post_result |-> NoResult, fired |-> {},
     dispatch |-> NoDispatch]

\* A session and its histories.
NewSession ==
    [state |-> Fresh, run |-> InitRun, sends |-> InitSends,
     since |-> InitSince, timing |-> InitTiming]

\* The session x after one more frame of After, and its histories.
Fed(x, label) ==
    LET r == update(x.state, label, DONE_CONFIDENCE_THRESHOLD, TRUE,
                    DEFAULT_MARGIN, StartClock, Unasked)
    IN  [state |-> r.state,
         run |-> NextRun(x.run, label, DONE_CONFIDENCE_THRESHOLD, TRUE, r.fired),
         sends |-> NextSends(x.sends, r.fired, StartClock),
         since |-> NextSince(x.since, label, TRUE, r.fired),
         timing |-> NextTiming(x.timing, r.fired, 0)]

\* The sessions in which the calls explored find the instance: those of
\* ServerStarts.
EngineStarts ==
    { NewSession,
      Fed(NewSession, "a"),
      Fed(Fed(NewSession, "a"), "a"),
      Fed(Fed(Fed(NewSession, "a"), "a"), SEND_TRIGGER_LABEL) }

InitEngine ==
    /\ mode = "direct"
    /\ loop = "none"
    /\ \E x \in EngineStarts :
         /\ state = x.state
         /\ run = x.run
         /\ sends = x.sends
         /\ since = x.since
         /\ timing = x.timing
    /\ InitCommon

Init == InitEngine /\ requests = MaxCalls

\* A thread enters update with the arguments a; the run of same-label
\* calls ends here if the call interrupts it.
Enter(c, a) ==
    /\ mode = "direct"
    /\ pc[c].at = "idle"
    /\ requests > 0
    /\ requests' = requests - 1
    /\ pc' = [pc EXCEPT ![c] = Entered(a)]
    /\ actor' = c
    /\ run' = BeginRun(run, a.label, a.confidence, a.hand_detected)
    /\ UNCHANGED <<mode, state, clock, loop, frame, response, call, fired,
                   dispatch, post_result, sends, elapsed, standalone>>

\* A thread returns from update, line 137 or 215: what it returns, and the
\* call's record in the history.
Leave(c) ==
    /\ mode = "direct"
    /\ pc[c].at \in {"137", "215"}
    /\ pc' = [pc EXCEPT ![c] = Idle]
    /\ actor' = c
    /\ LET p == pc[c]
       IN  /\ call' = [label |-> p.label, confidence |-> p.confidence,
                       hand_detected |-> p.hand_detected, margin |-> p.margin]
           /\ fired' = p.fired
           /\ dispatch' = p.dispatch
           /\ post_result' = p.post_result
           /\ run' = NextRun(run, p.label, p.confidence, p.hand_detected, p.fired)
           /\ sends' = NextSends(sends, p.fired, p.now)
    /\ UNCHANGED <<mode, state, clock, loop, frame, response, elapsed,
                   requests, standalone>>

CallBegin(c) == \E a \in Calls : Enter(c, a) /\ UNCHANGED hist

\* The thread of a direct call runs one line of update.
CallLine(c) == mode = "direct" /\ Line(c)

CallEnd(c) == Leave(c) /\ UNCHANGED hist

Next ==
    \/ ThreadTick
    \/ \E c \in Callers : CallBegin(c) \/ CallLine(c) \/ CallEnd(c)

Spec == Init /\ [][Next]_vars

----------------------------------------------------------------------------
(* The engine with the history of its appends kept *)

\* The calls made here: each label held up clearly, or no hand.
RetypeCalls ==
    { a \in Calls :
        a.hand_detected => /\ a.confidence = DONE_CONFIDENCE_THRESHOLD
                           /\ a.margin = DONE_MIN_MARGIN }

InitRetype == InitEngine /\ requests = MaxRetypeCalls

RetypeBegin(c) ==
    \E a \in RetypeCalls :
        /\ Enter(c, a)
        /\ since' = [since EXCEPT !.overlap =
                       @ \/ \E o \in Callers \ {c} : pc[o].at # "idle"]
        /\ UNCHANGED timing

RetypeEnd(c) ==
    /\ Leave(c)
    /\ since' = NextSince(since, call'.label, call'.hand_detected, fired')
    /\ UNCHANGED timing

RetypeNext ==
    \/ ThreadTick
    \/ \E c \in Callers : RetypeBegin(c) \/ CallLine(c) \/ RetypeEnd(c)

RetypeSpec == InitRetype /\ [][RetypeNext]_vars

----------------------------------------------------------------------------
(* The engine on a system clock that is adjusted *)

\* time.time() is the system's wall clock: setting the system clock moves
\* what it returns, back or forth, while no time passes.  The steps
\* considered: back by the append cooldown, forth by the send cooldown.
Adjustments == {0 - APPEND_COOLDOWN_SECONDS, SEND_COOLDOWN_SECONDS}

\* The system clock is set, once in a session.
AdjustClock ==
    \E a \in Adjustments :
        /\ clock = StartClock + elapsed
        /\ clock + a >= StartClock
        /\ clock + a <= MaxClock
        /\ clock' = clock + a
        /\ UNCHANGED <<mode, state, loop, frame, response, call, fired,
                       dispatch, post_result, run, sends, elapsed, hist, thr, standalone>>

ClockEnd(c) ==
    /\ Leave(c)
    /\ timing' = NextTiming(timing, fired', elapsed)
    /\ UNCHANGED since

ClockNext ==
    \/ ThreadTick
    \/ AdjustClock
    \/ \E c \in Callers : CallBegin(c) \/ CallLine(c) \/ ClockEnd(c)

ClockSpec == Init /\ [][ClockNext]_vars

----------------------------------------------------------------------------
(* run_webcam_mode *)

\* One iteration of the capture loop with a grabbed frame, lines 298-341.
WebcamFrame ==
    \E d \in Detections :
        /\ mode = "webcam"
        /\ loop = "running"
        /\ UNCHANGED <<mode, clock, response, elapsed, hist, thr, standalone>>
        /\ LET t == predict_from_bgr(d)
           IN  /\ frame' = t
               /\ IF Len(t) # 7
                  THEN \* the seven-name unpacking raises ValueError, which
                       \* nothing catches
                       /\ loop' = "crashed"
                       /\ NoUpdate
                  ELSE
                  LET hand_detected == t[3] > 0
                  IN  /\ loop' = loop
                      /\ IF hand_detected /\ t[1] # None
                         THEN LET e == ResolveWebcam(t[1], t[2], t[5], t[6], t[7])
                              IN  \E reply \in RepliesFor(state, e[1], e[2],
                                                          TRUE, e[3], clock) :
                                      Apply(e[1], e[2], TRUE, e[3], reply)
                         ELSE Apply("", 0, FALSE, DEFAULT_MARGIN, Unasked)

\* The loop also ends when a grab fails (line 299) or Q is pressed (line
\* 379); the session then takes no further step.

----------------------------------------------------------------------------
(* The program in either mode: __main__, lines 464-474 *)

\* The webcam loop starts with a new PredictionState; the requests
\* explored meet the server in one of ServerStarts.
InitApp ==
    /\ mode \in {"webcam", "server"}
    /\ loop = IF mode = "webcam" THEN "running" ELSE "none"
    /\ state \in IF mode = "server" THEN ServerStarts ELSE {Fresh}
    /\ requests = IF mode = "server" THEN MaxRequests ELSE 0
    /\ NewHistory
    /\ InitCommon

\* Time passes; with the threads of the server, within their horizon.
AppTick == Tick /\ (mode = "server" => clock' <= MaxThreadClock)

NextApp ==
    \/ AppTick
    \/ WebcamFrame
    \/ \E c \in Callers :
         \/ PredictBegin(c)
         \/ PredictLine(c)
         \/ PredictEnd(c)
         \/ ClearLine(c)
         \/ ClearEnd(c)

AppSpec == InitApp /\ [][NextApp]_vars

----------------------------------------------------------------------------
(* The webcam loop with the gateway call as a step of its own *)

\* The webcam loop has one thread, which waits inside urlopen (line 273)
\* for the gateway: no frame is grabbed before update has returned.  Nothing
\* else runs on the instance meanwhile, so the iteration is split only at
\* the call.

\* The PredictionState that serves the requests of caller c: the one
\* instance of line 390, whoever calls.
SessionOf(c) == state

\* The frames considered here: without a hand, or classified with the top
\* confidence at the send threshold.
ThreadDetections ==
    { d \in Detections :
        \/ d.hands = 0
        \/ /\ d.landmarks_ok
           /\ d.confidence >= DONE_CONFIDENCE_THRESHOLD }

\* An iteration of the webcam loop, lines 298-341, from its start to its
\* end or to the call of the gateway.
Begin(c) ==
    \E d \in ThreadDetections :
        /\ mode = "webcam"
        /\ c = Camera
        /\ loop = "running"
        /\ pc[c].at = "idle"
        /\ actor' = c
        /\ UNCHANGED <<mode, clock, response, elapsed, hist, requests, standalone>>
        /\ LET t == predict_from_bgr(d)
           IN  /\ frame' = t
               /\ IF Len(t) # 7
                  THEN \* the seven-name unpacking raises ValueError
                       /\ loop' = "crashed"
                       /\ pc' = pc
                       /\ NoUpdate
                  ELSE
                  LET e == ResolveWebcam(t[1], t[2], t[5], t[6], t[7])
                      b == update_begin(state, e[1], e[2], e[3], clock)
                  IN  /\ loop' = loop
                      /\ IF b.calls
                         THEN /\ b.state.stable_count <= MaxStable
                              /\ state' = b.state
                              /\ pc' = [pc EXCEPT ![c] =
                                          [at |-> "urlopen", label |-> e[1],
                                           confidence |-> e[2], margin |-> e[3],
                                           now |-> clock, text |-> b.text]]
                              /\ call' = [label |-> e[1], confidence |-> e[2],
                                          hand_detected |-> TRUE, margin |-> e[3]]
                              /\ fired' = {}
                              /\ dispatch' = NoDispatch
                              /\ post_result' = NoResult
                              /\ run' = NextRun(run, e[1], e[2], TRUE, {})
                              /\ UNCHANGED sends
                         ELSE /\ Apply(e[1], e[2], TRUE, e[3], Unasked)
                              /\ pc' = pc

\* The gateway call of the waiting loop returns, and update and the
\* iteration run to their end.
Return(c) ==
    \E reply \in Replies :
        /\ mode = "webcam"
        /\ pc[c].at = "urlopen"
        /\ actor' = c
        /\ pc' = [pc EXCEPT ![c] = Idle]
        /\ LET p == pc[c]
               r == update_resume(state, p.label, p.confidence, p.now, p.text, reply)
           IN  /\ Len(r.state.typed_text) <= MaxLen
               /\ state' = r.state
               /\ call' = [label |-> p.label, confidence |-> p.confidence,
                           hand_detected |-> TRUE, margin |-> p.margin]
               /\ fired' = r.fired
               /\ dispatch' = r.dispatch
               /\ post_result' = r.post_result
               /\ sends' = NextSends(sends, r.fired, p.now)
        /\ UNCHANGED <<mode, clock, loop, frame, response, run, elapsed, hist,
                       requests, standalone>>

\* The frames posted to the server here: one for each label, classified
\* with the top confidence at the send threshold.
ThreadFrames ==
    { predict_from_bgr(d) :
        d \in { x \in ThreadDetections :
                  /\ x.hands > 0
                  /\ x.second_label = IF x.label = "a"
                                      THEN WORD_SEPARATOR_LABEL ELSE "a" } }

\* POST /predict with one of these frames.
ThreadPredictBegin(c) ==
    /\ PredictBegin(c)
    /\ pc'[c].at = "139"
    /\ pc'[c].frame \in ThreadFrames

\* More requests than in AppSpec, of fewer kinds.
InitThread ==
    /\ mode \in {"webcam", "server"}
    /\ loop = IF mode = "webcam" THEN "running" ELSE "none"
    /\ state \in IF mode = "server" THEN ServerStarts ELSE {Fresh}
    /\ requests = IF mode = "server" THEN MaxThreadRequests ELSE 0
    /\ NewHistory
    /\ InitCommon

ThreadNext ==
    \/ ThreadTick
    \/ \E c \in Callers :
         \/ Begin(c)
         \/ Return(c)
         \/ ThreadPredictBegin(c)
         \/ PredictLine(c)
         \/ PredictEnd(c)
         \/ ClearLine(c)
         \/ ClearEnd(c)

ThreadSpec == InitThread /\ [][ThreadNext]_vars

----------------------------------------------------------------------------
(* The standalone server: ml/src/predict/prediction_server.py *)

\* Least confidence, in percent, at which a label is posted.
CONFIDENCE_THRESHOLD == 85

\* Confidences the classifier reports: just below the threshold and at it.
SignConfidences == {CONFIDENCE_THRESHOLD - 1, CONFIDENCE_THRESHOLD}

\* Most calls of post_tts explored in one run of the server.
MaxPosts == 3

\* What the hand detector and the classifier make of a decoded image.
SignDetections ==
    { [hands |-> 0], [hands |-> 1, landmarks_ok |-> FALSE] }
    \cup { [hands |-> 1, landmarks_ok |-> TRUE, label |-> l,
            confidence |-> c] : l \in CLASSES, c \in SignConfidences }

\* The dictionary predict_sign returns.
predict_sign(d) ==
    IF d.hands = 0
    THEN [label |-> None, confidence |-> 0, hands_detected |-> 0]
    ELSE IF ~d.landmarks_ok
    THEN [label |-> None, confidence |-> 0, hands_detected |-> d.hands]
    ELSE [label |-> d.label, confidence |-> d.confidence,
          hands_detected |-> d.hands]

\* post_tts: returns <<audioUrl, error>>.
post_tts(reply) ==
    IF reply.kind = "ok"
    THEN <<reply.audioUrl, None>>
    ELSE <<None, reply.message>>

\* JSON bodies a client posts to /predict: one that is not an object (data.get
\* of line 175 raises AttributeError), an object without an image, with a
\* string that is not base64, with base64 of something that is not an image
\* (imdecode yields None and cvtColor raises), or with an image.
SignRequests ==
    { [kind |-> "not_object"], [kind |-> "no_image"], [kind |-> "bad_base64"],
      [kind |-> "not_an_image"] }
    \cup { [kind |-> "image", detection |-> d] : d \in SignDetections }

\* The number of post_tts calls that have not returned yet.
PendingPosts == Cardinality({c \in Callers : pc[c].at = "post_tts"})

\* The condition of the if statement of lines 188-192.
ShouldPost(result) ==
    /\ Truthy(result.label)
    /\ result.confidence >= CONFIDENCE_THRESHOLD
    /\ result.label # last_posted_label

\* POST /predict from its entry to its response, or to the call of post_tts
\* at which its thread waits for the gateway: lines 169-193.
SignBegin(c) ==
    \E req \in SignRequests :
        /\ mode = "standalone"
        /\ pc[c].at = "idle"
        /\ actor' = c
        /\ UNCHANGED <<mode, state, clock, loop, frame, call, fired,
                       post_result, run, sends, elapsed, hist, requests,
                       standalone>>
        /\ IF req.kind = "no_image"
           THEN /\ response' = [route |-> "/predict", status |-> 400,
                                error |-> "No image provided"]
                /\ UNCHANGED <<pc, dispatch>>
           ELSE IF req.kind = "bad_base64"
           THEN /\ response' = [route |-> "/predict", status |-> 400,
                                error |-> "Failed to decode image"]
                /\ UNCHANGED <<pc, dispatch>>
           ELSE IF req.kind \in {"not_an_image", "not_object"}
           THEN /\ response' = [route |-> "/predict", status |-> 500]
                /\ UNCHANGED <<pc, dispatch>>
           ELSE
           LET result == predict_sign(req.detection)
           IN  IF ShouldPost(result)
               THEN /\ Len(posts) + PendingPosts < MaxPosts
                    /\ pc' = [pc EXCEPT ![c] =
                                [at |-> "post_tts", result |-> result]]
                    /\ UNCHANGED <<response, dispatch>>
               ELSE /\ response' = [route |-> "/predict", status |-> 200,
                                    label |-> result.label,
                                    confidence |-> result.confidence,
                                    hands_detected |-> result.hands_detected]
                    /\ UNCHANGED <<pc, dispatch>>

\* post_tts returns to a waiting handler, which runs to its response: lines
\* 193-203.
SignReturn(c) ==
    \E reply \in Replies :
        /\ mode = "standalone"
        /\ pc[c].at = "post_tts"
        /\ actor' = c
        /\ pc' = [pc EXCEPT ![c] = Idle]
        /\ UNCHANGED <<mode, state, clock, loop, frame, call, fired,
                       post_result, run, sends, elapsed, hist, requests>>
        /\ LET result == pc[c].result
               res == post_tts(reply)
               audio_url == res[1]
               err == res[2]
           IN  /\ dispatch' = [called |-> TRUE, text |-> result.label,
                               reply |-> reply]
               /\ posts' = Append(posts, [label |-> result.label,
                                          raised |-> reply.kind = "raise"])
               /\ IF ~Truthy(err)
                  THEN /\ last_posted_label' = result.label
                       /\ response' = [route |-> "/predict", status |-> 200,
                                       label |-> result.label,
                                       confidence |-> result.confidence,
                                       hands_detected |-> result.hands_detected,
                                       tts_sent |-> TRUE,
                                       audio_url |-> audio_url]
                  ELSE /\ last_posted_label' = last_posted_label
                       /\ response' = [route |-> "/predict", status |-> 200,
                                       label |-> result.label,
                                       confidence |-> result.confidence,
                                       hands_detected |-> result.hands_detected,
                                       tts_sent |-> FALSE]

InitStandalone ==
    /\ mode = "standalone"
    /\ loop = "none"
    /\ state = Fresh
    /\ requests = 0
    /\ NewHistory
    /\ InitCommon

StandaloneNext == \E c \in Callers : SignBegin(c) \/ SignReturn(c)

StandaloneSpec == InitStandalone /\ [][StandaloneNext]_vars

----------------------------------------------------------------------------
(* Properties of the engine, checked under Spec *)

\* The step in which caller c's direct call of update returns.
Returns(c) ==
    /\ mode = "direct"
    /\ pc[c].at \in {"137", "215"}
    /\ pc'[c].at = "idle"

\* No call of update is in progress.
Quiet == \A c \in Callers : pc[c].at = "idle"

\* C1: whenever the send rule dispatched a non-empty trimmed text, the
\* buffer is empty afterwards exactly if the request did not raise, and
\* after a request that raised, whatever the exception's message, the
\* buffer still holds the text; stated for a call that is the only one made
\* on the session since the state it started in.
C1_ClearedIffDispatchSucceeded ==
    [][ \A c \in Callers :
          (Returns(c) /\ requests = MaxCalls - 1 /\ dispatch'.called) =>
              /\ (state'.typed_text = <<>>) <=> (dispatch'.reply.kind = "ok")
              /\ dispatch'.reply.kind = "raise" =>
                     Strip(state'.typed_text) = dispatch'.text ]_vars

\* C2: during one run of hand-present frames that all carry the same label
\* (no hand-absent frame and no other label in between) the append rule
\* fires at most once, however many frames and however much time pass; so
\* it never fires twice for a label without such an interruption.
C2_OneAppendPerHeldGesture == run.appends <= 1

\* C3: whenever no call is in progress, stable_count is the number of
\* consecutive hand-present frames that carried the current label, and
\* after a hand-absent frame stable_count is 0 and last_predicted_label is
\* empty.
C3_StableCountIsRunLength ==
    Quiet =>
        /\ state.stable_count = run.frames
        /\ (call # NoCall /\ ~call.hand_detected) =>
               (state.stable_count = 0 /\ state.last_predicted_label = "")

\* C4: a send event fires at most once per cooldown window: two firings of
\* the send rule are at least SEND_COOLDOWN apart on the clock.
C4_SendOncePerCooldown == sends.gap = -1 \/ sends.gap >= SEND_COOLDOWN_SECONDS

\* C7: in a fresh session fed one letter at a confidence of at least
\* APPEND_CONFIDENCE_THRESHOLD, the append rule fires on the frame that is
\* the STABLE_FRAMES_REQUIRED-th of the run and on no other; the buffer is
\* empty before that frame and holds the letter from it on.
C7_AppendOnRequiredFrame ==
    /\ [][ \A c \in Callers :
             ( /\ Returns(c)
               /\ run'.first
               /\ run'.label \notin {SEND_TRIGGER_LABEL, WORD_SEPARATOR_LABEL} )
             => (("append" \in fired') <=> (run'.frames = STABLE_FRAMES_REQUIRED))
        ]_vars
    /\ []( ( /\ Quiet
             /\ run.first
             /\ run.frames > 0
             /\ run.label \notin {SEND_TRIGGER_LABEL, WORD_SEPARATOR_LABEL} )
           => /\ run.frames < STABLE_FRAMES_REQUIRED => state.typed_text = <<>>
              /\ run.frames >= STABLE_FRAMES_REQUIRED =>
                     state.typed_text = <<run.label>> )

\* C10: at most one of the send, separator and append rules fires in a
\* frame, and a frame that calls the gateway appends nothing: in what a
\* call that returned has fired, and in what a call in progress has.
C10_AtMostOneRule ==
    /\ Cardinality(fired) <= 1
    /\ dispatch.called => fired = {"send"}
    /\ \A c \in Callers :
         (mode = "direct" /\ pc[c].at # "idle") =>
             /\ Cardinality(pc[c].fired) <= 1
             /\ pc[c].dispatch.called => pc[c].fired = {"send"}

\* A send frame whose dispatch failed: the buffer still holds text that does
\* not end with a space, and the separator cooldown has elapsed.
C10_Witness ==
    /\ Quiet
    /\ fired = {"send"}
    /\ dispatch.called
    /\ state.typed_text # <<>>
    /\ ~EndsWithSpace(state.typed_text)
    /\ call.confidence >= SEPARATOR_CONFIDENCE_THRESHOLD
    /\ state.last_send_time - state.last_append_time >= SEPARATOR_COOLDOWN_SECONDS

\* C11: a frame without a hand runs none of the commit rules: every step
\* of its call leaves typed_text, last_appended_label, last_append_time,
\* last_committed_label and last_send_time as they were and changes
\* last_predicted_label, stable_count and hand_left_since_commit to "", 0
\* and true if at all, the last of them setting stable_count to 0; the call
\* returns no event and has called no gateway; and when it is the only call
\* made on the session, the three fields are "", 0 and true as it returns.
C11_HandAbsentFrame ==
    [][ \A c \in Callers :
          /\ ( /\ mode = "direct"
               /\ pc[c].at \in {"134", "135", "136"}
               /\ actor' = c ) =>
                 /\ state'.typed_text = state.typed_text
                 /\ state'.last_appended_label = state.last_appended_label
                 /\ state'.last_append_time = state.last_append_time
                 /\ state'.last_committed_label = state.last_committed_label
                 /\ state'.last_send_time = state.last_send_time
                 /\ state'.last_predicted_label
                      \in {state.last_predicted_label, ""}
                 /\ state'.stable_count \in {state.stable_count, 0}
                 /\ state'.hand_left_since_commit
                      \in {state.hand_left_since_commit, TRUE}
                 /\ pc'[c].at = "137" => state'.stable_count = 0
          /\ (Returns(c) /\ pc[c].at = "137") =>
                 /\ ~call'.hand_detected
                 /\ fired' = {}
                 /\ ~dispatch'.called
                 /\ post_result' = NoResult
                 /\ requests = MaxCalls - 1 =>
                        /\ state'.last_predicted_label = ""
                        /\ state'.stable_count = 0
                        /\ state'.hand_left_since_commit ]_vars

\* A frame without a hand met a session that has text in its buffer and has
\* appended before.
C11_Witness ==
    /\ Quiet
    /\ requests = MaxCalls - 1
    /\ call # NoCall
    /\ ~call.hand_detected
    /\ state.typed_text # <<>>
    /\ state.last_appended_label # ""
    /\ state.last_committed_label # ""
    /\ state.last_append_time > 0
    /\ state.hand_left_since_commit

\* C14: a dispatch that fails does not end the session: the gateway call
\* hands every failure back as an absent reference and an error, and the
\* send frame on which it happens returns the event (action send, success
\* false, the error, the text).
C14_DispatchFailureIsReported ==
    (dispatch.called /\ dispatch.reply.kind = "raise") =>
        /\ post_generate_audio(dispatch.reply)[1] = None
        /\ post_result.action = "send"
        /\ post_result.success = FALSE
        /\ post_result.error = dispatch.reply.message
        /\ post_result.text = dispatch.text

\* C15: a gateway response counts as success only if its status is 2xx and
\* its body carries an audioUrl; after any other response (another status,
\* a body without audioUrl) the send frame reports an error and the buffer
\* still holds the text; stated for a call that is the only one made on
\* the session since the state it started in.
C15_SuccessNeedsAudioUrl ==
    [][ \A c \in Callers :
          ( /\ Returns(c)
            /\ requests = MaxCalls - 1
            /\ dispatch'.called
            /\ dispatch'.reply.status # 0 ) =>
              LET good == /\ dispatch'.reply.status = 200
                          /\ dispatch'.reply.audioUrl # None
              IN  /\ post_result'.success <=> good
                  /\ ~good => /\ Truthy(post_result'.error)
                              /\ Strip(state'.typed_text) = dispatch'.text
        ]_vars

----------------------------------------------------------------------------
(* Properties of the engine on an adjusted clock, checked under ClockSpec *)

\* The last update call met every condition of the send rule but the
\* cooldown.
SendFrame ==
    /\ call.hand_detected
    /\ call.label = SEND_TRIGGER_LABEL
    /\ call.confidence >= DONE_CONFIDENCE_THRESHOLD
    /\ call.margin >= DONE_MIN_MARGIN

\* C19: the clock the cooldown comparisons read never goes back, so what
\* successive update calls read as now never decreases; and setting the
\* system clock neither lets the send rule fire before SEND_COOLDOWN has
\* passed since its last firing nor suppresses it once that time has passed.
C19_MonotonicClock ==
    [][ /\ clock' >= clock
        /\ \A c \in Callers :
             (Returns(c) /\ timing.sent # -1) =>
                 /\ "send" \in fired' =>
                        elapsed - timing.sent >= SEND_COOLDOWN_SECONDS
                 /\ ( /\ SendFrame'
                      /\ elapsed - timing.sent >= SEND_COOLDOWN_SECONDS ) =>
                        "send" \in fired' ]_vars

----------------------------------------------------------------------------
(* Properties of the engine's appends, checked under RetypeSpec *)

\* C20 as claimed: after a letter was appended, with no hand-absent frame
\* and no other commit since, a frame that shows the letter again once
\* APPEND_COOLDOWN has elapsed, at a sufficient confidence and streak,
\* appends it a second time.
C20_RetypeInView ==
    [][ \A c \in Callers :
          ( /\ Returns(c)
            /\ since.label # ""
            /\ ~since.absent
            /\ ~since.other
            /\ ~since.overlap
            /\ call'.hand_detected
            /\ call'.label = since.label
            /\ call'.confidence >= APPEND_CONFIDENCE_THRESHOLD
            /\ state'.stable_count >= STABLE_FRAMES_REQUIRED
            /\ pc[c].now - state.last_append_time >= APPEND_COOLDOWN_SECONDS )
          => "append" \in fired' ]_vars

\* C20, amended: as long as the calls of update follow one another, a
\* letter is appended a second time in a row only after a hand-absent frame
\* or another commit; the elapsed cooldown alone never brings the second
\* append about.
C20_RetypeNeedsInterruption == since.retyped = "clean" => since.overlap

\* The letter appended a second time after the hand had left the frame, with
\* no other commit in between, by calls that followed one another.
C20_Witness ==
    /\ Quiet
    /\ ~since.overlap
    /\ since.retyped = "absent"
    /\ "append" \in fired
    /\ state.typed_text = <<"a", "a">>
    /\ state.last_append_time - StartClock >= APPEND_COOLDOWN_SECONDS

----------------------------------------------------------------------------
(* Properties of the program in either mode, checked under AppSpec *)

\* The last frame was classified: predict_from_bgr returned seven values.
Classified == Len(frame) = 7

\* The top label is the send label, the runner-up is the separator label
\* and they are less than DONE_MIN_MARGIN apart.
Ambiguous ==
    /\ Classified
    /\ frame[1] = SEND_TRIGGER_LABEL
    /\ frame[5] = WORD_SEPARATOR_LABEL
    /\ frame[2] - frame[6] < DONE_MIN_MARGIN

\* C5: for an ambiguous frame, in the webcam loop and in the /predict
\* handler alike, update is called with the separator label, the runner-up
\* confidence and a margin of at least DONE_MIN_MARGIN.
C5_AmbiguousReadAsSeparator ==
    Ambiguous =>
        /\ call.hand_detected
        /\ call.label = WORD_SEPARATOR_LABEL
        /\ call.confidence = frame[6]
        /\ call.margin >= DONE_MIN_MARGIN

\* An ambiguous frame posted to the server that inserted a space.
C5_Witness ==
    /\ mode = "server"
    /\ Ambiguous
    /\ fired = {"space"}
    /\ response.label = WORD_SEPARATOR_LABEL

\* C6: for a classified frame that is not ambiguous, update is called with
\* the top label, the top confidence and the margin between the top two;
\* and resolving what was passed once more, in either caller's way, gives
\* the same label, confidence and margin again.
C6_ResolutionIdentityAndIdempotent ==
    Classified =>
        /\ ~Ambiguous =>
              /\ call.label = frame[1]
              /\ call.confidence = frame[2]
              /\ call.margin = frame[2] - frame[6]
        /\ ResolveServer(TRUE, call.label, call.confidence, frame[5],
                         frame[6], call.margin)
             = <<call.label, call.confidence, call.margin>>
        /\ ResolveWebcam(call.label, call.confidence, frame[5], frame[6],
                         call.margin)
             = <<call.label, call.confidence, call.margin>>

\* A send frame in the webcam loop whose runner-up is not the separator and
\* whose margin is below DONE_MIN_MARGIN: it is passed on as it is.
C6_Witness ==
    /\ mode = "webcam"
    /\ Classified
    /\ frame[1] = SEND_TRIGGER_LABEL
    /\ frame[5] # WORD_SEPARATOR_LABEL
    /\ frame[7] < DONE_MIN_MARGIN
    /\ call.label = SEND_TRIGGER_LABEL
    /\ call.margin = frame[7]

\* The step in which caller c's /clear-buffer handler answers.
ClearAnswers(c) == pc[c].at = "456" /\ pc'[c].at = "idle"

\* C8: after clear-buffer every field of the instance has the value it has
\* in a new PredictionState; stated for a clear that is the only request
\* the server has been sent since the state it started in.
C8_ClearRestoresFreshState ==
    [][ \A c \in Callers :
          (ClearAnswers(c) /\ requests = MaxRequests - 1) =>
              state' = Fresh ]_vars

\* C9: when clear-buffer answers, whatever came before, text_buffer is
\* empty and stable_count is 0, and the response reports success with the
\* empty buffer.
C9_ClearEmptiesBufferAndStreak ==
    [][ \A c \in Callers :
          ClearAnswers(c) =>
              /\ state'.typed_text = <<>>
              /\ state'.stable_count = 0
              /\ response'.status = 200
              /\ response'.success
              /\ response'.text_buffer = <<>> ]_vars

\* C12: update is called once for every frame a caller receives; for a frame
\* in which no hand is detected the webcam loop and the /predict handler
\* call update with hand_detected false, so that stable_count is 0 and
\* hand_left_since_commit is true afterwards, and the caller goes on: the
\* loop is still running, the handler answered 200.
C12_UpdateOncePerFrame ==
    frame # NoFrame =>
        /\ call # NoCall
        /\ loop # "crashed"
        /\ mode = "server" => response.status = 200
        /\ frame[3] = 0 =>
               /\ ~call.hand_detected
               /\ state.stable_count = 0
               /\ state.hand_left_since_commit

\* The step that handles a request to /predict from its arrival to its
\* response without decoding an image.
InvalidRequest ==
    /\ mode = "server"
    /\ requests' = requests - 1
    /\ pc' = pc
    /\ frame' = NoFrame

\* C13: a request to /predict without an image, or with an image that does
\* not decode, is answered 400 with an error, a body that is not an object
\* is answered 500, and each of them leaves every field of the instance as
\* it was, so that the next frame meets the state the previous frame left.
C13_InvalidFrameLeavesState ==
    [][ InvalidRequest =>
          /\ response'.route = "/predict"
          /\ response'.status \in {400, 500}
          /\ response'.status = 400 =>
                 response'.error \in {"No image provided",
                                      "Failed to decode image"}
          /\ state' = state
          /\ post_result' = NoResult
          /\ ~dispatch'.called ]_vars

\* An invalid request in the middle of a streak, with text in the buffer.
C13_Witness ==
    /\ response.route = "/predict"
    /\ response.status = 400
    /\ requests = MaxRequests - 1
    /\ state.stable_count = 2
    /\ state.last_predicted_label = "a"
    /\ state.typed_text # <<>>
    /\ ~state.hand_left_since_commit

\* The buffer neither begins with a separator nor holds two in a row.
SeparatorsApart(t) ==
    /\ t # <<>> => t[1] # " "
    /\ \A i \in 1..(Len(t) - 1) : ~(t[i] = " " /\ t[i + 1] = " ")

\* C22: typed_text never begins with a separator and never holds two
\* adjacent separators.
C22_SeparatorsApart == SeparatorsApart(state.typed_text)

\* A classified frame t, passed to update with the given confidence, whose
\* two best confidences are less than DONE_MIN_MARGIN apart or whose
\* confidence as passed is below DONE_CONFIDENCE_THRESHOLD.
WeakFrame(t, confidence) ==
    /\ Len(t) = 7
    /\ \/ t[2] - t[6] < DONE_MIN_MARGIN
       \/ confidence < DONE_CONFIDENCE_THRESHOLD

\* Caller c's thread is inside update for a frame with a hand.
InUpdate(c) == pc[c].at \in UpdateLines /\ pc[c].at \notin {"134", "135", "136"}

\* C21: a classified frame whose two best confidences are less than
\* DONE_MIN_MARGIN apart, or whose confidence as passed to update is below
\* DONE_CONFIDENCE_THRESHOLD, makes no gateway call, fires no send and leaves
\* a non-empty buffer non-empty, whatever its labels and whatever the state
\* of the session: in the webcam loop over the whole iteration, on the
\* server in every step the frame's handler takes.
C21_WeakFrameNeverSends ==
    /\ [](WeakFrame(frame, call.confidence) =>
            (~dispatch.called /\ "send" \notin fired))
    /\ [][ (mode = "webcam" /\ WeakFrame(frame', call'.confidence)) =>
             (state.typed_text # <<>> => state'.typed_text # <<>>) ]_vars
    /\ [][ \A c \in Callers :
             ( /\ mode = "server"
               /\ actor' = c
               /\ InUpdate(c)
               /\ WeakFrame(pc[c].frame, pc[c].confidence) ) =>
                 /\ pc[c].at \notin {"154", "156", "173"}
                 /\ "send" \notin pc[c].fired
                 /\ ~pc[c].dispatch.called
                 /\ state.typed_text # <<>> => state'.typed_text # <<>> ]_vars

\* A send frame with a clear margin and too little confidence, met by a
\* session with text in the buffer, a streak and the send cooldown over:
\* nothing was sent.
C21_Witness ==
    /\ Classified
    /\ frame[1] = SEND_TRIGGER_LABEL
    /\ frame[2] - frame[6] >= DONE_MIN_MARGIN
    /\ call.label = SEND_TRIGGER_LABEL
    /\ call.confidence < DONE_CONFIDENCE_THRESHOLD
    /\ state.typed_text # <<>>
    /\ state.stable_count >= SEND_STABLE_FRAMES_REQUIRED
    /\ clock - state.last_send_time >= SEND_COOLDOWN_SECONDS
    /\ fired = {}
    /\ ~dispatch.called

----------------------------------------------------------------------------
(* Properties of the program with its threads, checked under ThreadSpec *)

\* Caller c's thread waits for the gateway inside update.
Pending(c) == pc[c].at \in {"urlopen", "156"}

\* Caller c's thread is inside a handler of the server.
InHandler(c) == mode = "server" /\ pc[c].at # "idle"

\* C16: the gateway call does not hold up the frames: while one dispatch of
\* the session is pending and no other thread is at work, a caller can
\* start a new frame and have update evaluate it.
C16_FramesWhilePending ==
    \A c \in Callers :
        ( /\ Pending(c)
          /\ \A o \in Callers \ {c} : pc[o].at = "idle"
          /\ mode = "server" => requests > 0 ) =>
            ENABLED (\E o \in Callers :
                        \/ Begin(o) /\ call' # NoCall
                        \/ ThreadPredictBegin(o))

\* C17: every caller of the server has a session state of its own: a step
\* taken for one caller leaves the buffer, the streak and the cooldown
\* times that another caller observes as they were.
C17_PrivateSession ==
    [][ \A c \in Callers :
          (mode = "server" /\ actor' # c) =>
              /\ SessionOf(c)'.typed_text = SessionOf(c).typed_text
              /\ SessionOf(c)'.stable_count = SessionOf(c).stable_count
              /\ SessionOf(c)'.last_append_time = SessionOf(c).last_append_time
              /\ SessionOf(c)'.last_send_time = SessionOf(c).last_send_time ]_vars

\* C18: on the server, updates and clears of the one session state do not
\* interleave: from the moment a handler has reached update or the clear's
\* assignments until it answers, no step of another handler changes the
\* state.
C18_HandlersDoNotInterleave ==
    [][ \A c \in Callers :
          (InHandler(c) /\ actor' # c) => state' = state ]_vars

----------------------------------------------------------------------------
(* Properties of the standalone server, checked under StandaloneSpec *)

\* The labels of the posts that did not raise, in their order.
RECURSIVE Delivered(_)
Delivered(ps) ==
    IF ps = <<>> THEN <<>>
    ELSE IF Head(ps).raised THEN Delivered(Tail(ps))
    ELSE <<Head(ps).label>> \o Delivered(Tail(ps))

\* post_tts is called only for a result with a label, a confidence of at
\* least CONFIDENCE_THRESHOLD and a label other than last_posted_label.
C23_PostOnlyIfQualified ==
    [][ \A c \in Callers :
          (pc[c].at = "idle" /\ pc'[c].at = "post_tts") =>
              /\ pc'[c].result.label # None
              /\ pc'[c].result.confidence >= CONFIDENCE_THRESHOLD
              /\ pc'[c].result.label # last_posted_label ]_vars

\* last_posted_label changes only when a post_tts call has returned without
\* having failed, and then to the label posted.
C23_LabelKeptOnFailure ==
    [][ last_posted_label' # last_posted_label =>
          /\ dispatch'.called
          /\ dispatch'.reply.kind = "ok"
          /\ last_posted_label' = dispatch'.text ]_vars

\* Two posts that succeeded one after the other carry different labels.
C23_SuccessivePostsDiffer ==
    LET d == Delivered(posts)
    IN  \A i \in 1..(Len(d) - 1) : d[i] # d[i + 1]

\* After a failed post, the next frame with that label and a confidence of
\* at least CONFIDENCE_THRESHOLD is posted.
C23_FailedLabelPostedAgain ==
    [][ \A c \in Callers :
          ( /\ posts # <<>>
            /\ posts[Len(posts)].raised
            /\ pc[c].at = "idle"
            /\ actor' = c
            /\ response' # response
            /\ response'.status = 200
            /\ response'.label = posts[Len(posts)].label
            /\ response'.confidence >= CONFIDENCE_THRESHOLD ) => FALSE ]_vars

\* C23: in the standalone prediction server a text-to-speech post is
\* attempted only for a frame with a label, a confidence of at least
\* CONFIDENCE_THRESHOLD and a label other than last_posted_label;
\* last_posted_label changes only when a post succeeded; two successive
\* successful posts never carry the same label; and after a failed post the
\* same label is posted again on the next frame that qualifies.
C23_PostOncePerLabel ==
    /\ C23_PostOnlyIfQualified
    /\ C23_LabelKeptOnFailure
    /\ [] C23_SuccessivePostsDiffer
    /\ C23_FailedLabelPostedAgain

====
